---- MODULE Spec2Model ----
(***************************************************************************)
(* Model of the 'ia configure' subcommand                                  *)
(* (src/internetarchive/cli/ia_configure.py, function main).               *)
(*                                                                         *)
(* One invocation of main(args) is one behaviour.  The initial state draws *)
(* the parsed arguments and the session configuration; the actions are the *)
(* branches of main, split at the calls to the collaborators               *)
(* (session.whoami, netrc.netrc, configure), whose results are chosen      *)
(* nondeterministically.                                                   *)
(*                                                                         *)
(* Python values are records [t, s, o]: t is the type tag, s the string    *)
(* payload and o the object id (for a dict reference), the truth value     *)
(* (for a bool, 0 or 1) or the number (for an int).  Dicts live in a heap  *)
(* (a sequence of dicts indexed by object id), so that dict.copy() and     *)
(* item assignment have Python's reference semantics.                      *)
(***************************************************************************)
EXTENDS Integers, Sequences, FiniteSets, TLC

VARIABLES
    args,          \* argparse.Namespace: print_cookies, show, check, netrc, username, password
    heap,          \* the dict objects; heap[SessionConfig] is args.session.config
    pc,            \* position in main
    out,           \* the print() calls so far, in order, on both streams
    calls,         \* the collaborator calls so far, in order
    status,        \* "running", "exited" (sys.exit), "returned" or "raised"
    exitCode,      \* argument of sys.exit once status = "exited", else -1
    raised,        \* name of the exception that escaped main, else ""
    whoami_info,   \* what session.whoami() returned
    netrc_exc,     \* what netrc.netrc() raised: "" if it loaded, "unset" before the call
    n,             \* n.hosts of the loaded netrc object
    cred,          \* <<username, password>> handed to configure()
    conf,          \* outcome of configure(): returned path or raised message
    config_file    \* the config file on disk: "untouched" or "written"

vars == <<args, heap, pc, out, calls, status, exitCode, raised, whoami_info,
          netrc_exc, n, cred, conf, config_file>>

----------------------------------------------------------------------------
(* Bounds *)

\* number of additional (non-secret) keys a section of the config may hold
MaxExtraKeys == 1

----------------------------------------------------------------------------
(* Python values *)

PyNone == [t |-> "none", s |-> "", o |-> 0]
PyStr(x) == [t |-> "str", s |-> x, o |-> 0]
PyRef(id) == [t |-> "ref", s |-> "", o |-> id]
PyBool(b) == [t |-> "bool", s |-> "", o |-> IF b THEN 1 ELSE 0]
PyInt(i) == [t |-> "int", s |-> "", o |-> i]

\* bool(v)
Truthy(v) ==
    CASE v.t = "none" -> FALSE
      [] v.t = "str" -> v.s # ""
      [] v.t = "bool" -> v.o = 1
      [] v.t = "int" -> v.o # 0
      [] OTHER -> TRUE

\* v is True
IsTrue(v) == v.t = "bool" /\ v.o = 1

\* a or b
PyOr(a, b) == IF Truthy(a) THEN a ELSE b

\* str(v) as an f-string renders it
Fmt(v) ==
    CASE v.t = "str" -> v.s
      [] v.t = "none" -> "None"
      [] v.t = "bool" -> IF v.o = 1 THEN "True" ELSE "False"
      [] OTHER -> ToString(v.o)

\* dicts: functions from the keys present to values
EmptyDict == [k \in {} |-> PyNone]
DictGet(d, k, default) == IF k \in DOMAIN d THEN d[k] ELSE default
DictSet(d, k, v) == [x \in (DOMAIN d) \cup {k} |-> IF x = k THEN v ELSE d[x]]

\* d.copy(): a new object with the same items (shallow)
DictCopy(h, id) == Append(h, h[id])
\* d[k] = v
SetItem(h, id, k, v) == [h EXCEPT ![id] = DictSet(h[id], k, v)]

SessionConfig == 1

----------------------------------------------------------------------------
(* Inputs: the session and the parsed arguments *)

ExtraKeys == {"key" \o ToString(i) : i \in 1..MaxExtraKeys}

\* all dicts whose keys are a subset of DOMAIN allowed and whose values are
\* in allowed[k]
Dicts(allowed) ==
    UNION {{d \in [S -> UNION {allowed[k] : k \in S}] : \A k \in S : d[k] \in allowed[k]}
           : S \in SUBSET DOMAIN allowed}

S3Values(k) == IF k = "secret" THEN {PyStr("s3cr3t")} ELSE {PyStr("v")}
CookieValues(k) ==
    CASE k = "logged-in-user" -> {PyStr(""), PyStr("alice")}
      [] k = "logged-in-sig" -> {PyStr(""), PyStr("xyz")}
      [] OTHER -> {PyStr("v")}

Absent == [present |-> FALSE, d |-> EmptyDict]
Section(ds) == {Absent} \cup {[present |-> TRUE, d |-> d] : d \in ds}

S3Sections == Section(Dicts([k \in {"secret"} \cup ExtraKeys |-> S3Values(k)]))
CookieSections ==
    Section(Dicts([k \in {"logged-in-user", "logged-in-sig"} \cup ExtraKeys |-> CookieValues(k)]))
GeneralSections == {Absent, [present |-> TRUE, d |-> [k \in {"screenname"} |-> PyStr("alice")]]}

\* the heap holding a session config with the given sections
SessionHeap(s3, cookies, general) ==
    LET c(sec) == IF sec.present THEN 1 ELSE 0
        ids == [k \in {"s3", "cookies", "general"} |->
                  CASE k = "s3" -> 2
                    [] k = "cookies" -> 2 + c(s3)
                    [] OTHER -> 2 + c(s3) + c(cookies)]
        present == {k \in {"s3", "cookies", "general"} :
                      CASE k = "s3" -> s3.present
                        [] k = "cookies" -> cookies.present
                        [] OTHER -> general.present}
        top == [k \in present |-> PyRef(ids[k])]
    IN  <<top>> \o (IF s3.present THEN <<s3.d>> ELSE <<>>)
                \o (IF cookies.present THEN <<cookies.d>> ELSE <<>>)
                \o (IF general.present THEN <<general.d>> ELSE <<>>)

\* args.session.config_file, args.session.host
SessionConfigFile == "/home/user/.config/internetarchive/ia.ini"
SessionHost == "archive.org"

Usernames == {PyNone, PyStr(""), PyStr("bob")}
Passwords == {PyNone, PyStr(""), PyStr("secret")}

Namespaces ==
    [print_cookies : BOOLEAN, show : BOOLEAN, check : BOOLEAN, netrc : BOOLEAN,
     username : Usernames, password : Passwords]

----------------------------------------------------------------------------
(* Output *)

\* print(text, file=stream): the text and the newline print() appends
PyPrint(o, stream, text) ==
    Append(o, [stream |-> stream, kind |-> "text", text |-> text \o "\n", doc |-> {}])

\* the JSON document json.dumps() writes for the dict id: one entry per
\* member, addressed by its path of keys; an object member has an entry of
\* its own, so that an empty object is told from a missing one
RECURSIVE JsonDoc(_, _, _)
JsonDoc(h, id, prefix) ==
    UNION {IF h[id][k].t = "ref"
             THEN {[path |-> Append(prefix, k), t |-> "obj", s |-> ""]}
                      \cup JsonDoc(h, h[id][k].o, Append(prefix, k))
             ELSE {[path |-> Append(prefix, k), t |-> "str", s |-> h[id][k].s]}
           : k \in DOMAIN h[id]}

\* print(json.dumps(config, indent=2))
PrintJson(o, h, id) ==
    Append(o, [stream |-> "stdout", kind |-> "json", text |-> "", doc |-> JsonDoc(h, id, <<>>)])

Stdout == SelectSeq(out, LAMBDA e : e.stream = "stdout")
Stderr == SelectSeq(out, LAMBDA e : e.stream = "stderr")

\* sys.exit(code); sys.exit() exits with 0
SysExit(code) ==
    /\ status' = "exited"
    /\ exitCode' = code
    /\ pc' = "done"

\* variant of the if chain that tests show before print_cookies
Selected_ShowFirst(a) ==
    IF a.show THEN "show"
    ELSE IF a.print_cookies THEN "print_cookies"
    ELSE IF a.check THEN "check"
    ELSE "configure"

\* the if chain of main: the first flag set, in this order, selects the
\* branch; with none of them set the configure branch runs
Selected(a) ==
    IF a.print_cookies THEN "print_cookies"
    ELSE IF a.show THEN "show"
    ELSE IF a.check THEN "check"
    ELSE "configure"

----------------------------------------------------------------------------
Init ==
    /\ args \in Namespaces
    /\ \E s3 \in S3Sections, cookies \in CookieSections, general \in GeneralSections :
           heap = SessionHeap(s3, cookies, general)
    /\ pc = "start"
    /\ out = <<>>
    /\ calls = <<>>
    /\ status = "running"
    /\ exitCode = -1
    /\ raised = ""
    /\ whoami_info = [success |-> PyNone, username |-> "", error |-> ""]
    /\ netrc_exc = "unset"
    /\ n = EmptyDict
    /\ cred = <<PyNone, PyNone>>
    /\ conf = [ok |-> FALSE, path |-> "", msg |-> ""]
    /\ config_file = "untouched"

----------------------------------------------------------------------------
(* if args.print_cookies: ... *)

MsgBothCookies ==
    "error: 'logged-in-user' and 'logged-in-sig' cookies not found in config file, try reconfiguring."
MsgUserCookie == "error: 'logged-in-user' cookie not found in config file, try reconfiguring."
MsgSigCookie == "error: 'logged-in-sig' cookie not found in config file, try reconfiguring."

\* args.session.config.get("cookies", {}).get(key)
CookieGet(h, key) ==
    LET cookies == DictGet(h[SessionConfig], "cookies", PyNone)
    IN  IF cookies.t = "ref" THEN DictGet(h[cookies.o], key, PyNone) ELSE PyNone

\* variant of the chain whose second test is "elif not sig"
MissingCookieMsg_SigFirst(user, sig) ==
    IF ~Truthy(user) /\ ~Truthy(sig) THEN MsgBothCookies
    ELSE IF ~Truthy(sig) THEN MsgUserCookie
    ELSE MsgSigCookie

\* the if / elif / elif chain under "if not user or not sig"
MissingCookieMsg(user, sig) ==
    IF ~Truthy(user) /\ ~Truthy(sig) THEN MsgBothCookies
    ELSE IF ~Truthy(user) THEN MsgUserCookie
    ELSE MsgSigCookie

CookieLine(user, sig) == "logged-in-user=" \o Fmt(user) \o "; logged-in-sig=" \o Fmt(sig)

PrintCookies ==
    /\ pc = "start"
    /\ Selected(args) = "print_cookies"
    /\ LET user == CookieGet(heap, "logged-in-user")
           sig == CookieGet(heap, "logged-in-sig")
       IN  IF ~Truthy(user) \/ ~Truthy(sig)
             THEN /\ out' = PyPrint(out, "stderr", MissingCookieMsg(user, sig))
                  /\ SysExit(1)
             ELSE /\ out' = PyPrint(out, "stdout", CookieLine(user, sig))
                  /\ SysExit(0)
    /\ UNCHANGED <<args, heap, calls, raised, whoami_info, netrc_exc, n, cred, conf, config_file>>

----------------------------------------------------------------------------
(* if args.show: ... *)

\* variant of the redaction that omits .copy() and writes through the
\* reference shared with the session config
RedactSection_InPlace(h, config, section, key) ==
    IF section \in DOMAIN h[config]
      THEN LET sub == h[config][section].o
           IN  IF key \in DOMAIN h[sub]
                 THEN SetItem(h, sub, key, PyStr("REDACTED"))
                 ELSE h
      ELSE h

\* if section in config:
\*     sub = config[section].copy()
\*     if key in sub: sub[key] = 'REDACTED'
\*     config[section] = sub
RedactSection(h, config, section, key) ==
    IF section \in DOMAIN h[config]
      THEN LET h1 == DictCopy(h, h[config][section].o)
               sub == Len(h1)
               h2 == IF key \in DOMAIN h1[sub]
                       THEN SetItem(h1, sub, key, PyStr("REDACTED"))
                       ELSE h1
           IN  SetItem(h2, config, section, PyRef(sub))
      ELSE h

Show ==
    /\ pc = "start"
    /\ Selected(args) = "show"
    /\ LET h1 == DictCopy(heap, SessionConfig)
           config == Len(h1)
           h2 == RedactSection(h1, config, "s3", "secret")
           h3 == RedactSection(h2, config, "cookies", "logged-in-sig")
       IN  /\ heap' = h3
           /\ out' = PrintJson(out, h3, config)
    /\ SysExit(0)
    /\ UNCHANGED <<args, calls, raised, whoami_info, netrc_exc, n, cred, conf, config_file>>

----------------------------------------------------------------------------
(* if args.check: ... *)

\* what session.whoami() can return: on success the documented shape, with
\* the username under value; otherwise any success value and error detail
WhoamiResults ==
    [success : {PyBool(TRUE)}, username : {"alice", "bob"}, error : {""}]
        \cup [success : {PyNone, PyBool(FALSE), PyInt(1), PyStr("true")},
              username : {"", "alice"}, error : {"", "invalid key"}]

\* variant that tests the truth value: if whoami_info.get('success')
WhoamiSucceeded_Truthy(info) == Truthy(info.success)

\* whoami_info.get('success') is True
WhoamiSucceeded(info) == IsTrue(info.success)

MsgValid(user) == "The credentials for \"" \o user \o "\" are valid"
MsgInvalid == "Your credentials are invalid, check your configuration and try again"

\* the stream the invalid-credentials message is printed to
InvalidStream == "stdout"

Check ==
    /\ pc = "start"
    /\ Selected(args) = "check"
    /\ \E r \in WhoamiResults :
          /\ whoami_info' = r
          /\ calls' = Append(calls, [fn |-> "whoami", args |-> <<>>, at |-> Len(out)])
          /\ IF WhoamiSucceeded(r)
               THEN /\ out' = PyPrint(out, "stdout", MsgValid(r.username))
                    /\ SysExit(0)
               ELSE /\ out' = PyPrint(out, InvalidStream, MsgInvalid)
                    /\ SysExit(1)
    /\ UNCHANGED <<args, heap, raised, netrc_exc, n, cred, conf, config_file>>

----------------------------------------------------------------------------
(* the default action: try: ... except AuthenticationError *)

MsgNetrcBanner == "Configuring 'ia' with netrc file..."
MsgNetrcParse == "error: netrc.netrc() cannot parse your .netrc file."
MsgNetrcNotFound == "error: .netrc file not found."
MsgBanner == "Enter your Archive.org credentials below to configure 'ia'.\n"
MsgSaved(path) == "Config saved to: " \o path

\* n.hosts of a netrc file that loads: host -> (login, account, password)
NetrcHosts ==
    LET entries(host) ==
            IF host = "archive.org"
              THEN {<<PyStr("nuser"), PyNone, pw>> : pw \in {PyNone, PyStr(""), PyStr("npass")}}
              ELSE {<<PyStr("other"), PyNone, PyStr("otherpass")>>}
    IN  Dicts([host \in {"archive.org", "example.com"} |-> entries(host)])

\* what netrc.netrc() can do: raise one of the two handled errors, or load
NetrcOutcomes ==
    [exc : {"NetrcParseError", "FileNotFoundError"}, hosts : {EmptyDict}]
        \cup [exc : {""}, hosts : NetrcHosts]

\* lines 120-130: the banner and n = netrc.netrc()
NetrcLoad ==
    /\ pc = "start"
    /\ Selected(args) = "configure"
    /\ args.netrc
    /\ \E o \in NetrcOutcomes :
          LET out1 == PyPrint(out, "stderr", MsgNetrcBanner)
          IN  /\ netrc_exc' = o.exc
              /\ CASE o.exc = "NetrcParseError" ->
                        /\ out' = PyPrint(out1, "stderr", MsgNetrcParse)
                        /\ SysExit(1)
                        /\ UNCHANGED n
                   [] o.exc = "FileNotFoundError" ->
                        /\ out' = PyPrint(out1, "stderr", MsgNetrcNotFound)
                        /\ SysExit(1)
                        /\ UNCHANGED n
                   [] OTHER ->
                        /\ out' = out1
                        /\ n' = o.hosts
                        /\ pc' = "netrc_lookup"
                        /\ UNCHANGED <<status, exitCode>>
    /\ calls' = Append(calls, [fn |-> "netrc", args |-> <<>>, at |-> Len(out) + 1])
    /\ UNCHANGED <<args, heap, raised, whoami_info, cred, conf, config_file>>

\* line 131: username, _, password = n.hosts["archive.org"]
\* a missing key raises KeyError, which no handler of main catches
HostsLookup(hosts, host) ==
    IF host \in DOMAIN hosts
      THEN [exc |-> "", entry |-> hosts[host]]
      ELSE [exc |-> "KeyError", entry |-> <<PyNone, PyNone, PyNone>>]

NetrcLookup ==
    /\ pc = "netrc_lookup"
    /\ LET r == HostsLookup(n, "archive.org")
       IN  IF r.exc # ""
             THEN /\ raised' = r.exc
                  /\ status' = "raised"
                  /\ pc' = "done"
                  /\ UNCHANGED cred
             ELSE \* configure(username, password or "", ...)
                  /\ cred' = <<r.entry[1], PyOr(r.entry[3], PyStr(""))>>
                  /\ pc' = "configure"
                  /\ UNCHANGED <<raised, status>>
    /\ UNCHANGED <<args, heap, out, calls, exitCode, whoami_info, netrc_exc, n, conf,
                   config_file>>

\* variant of the banner test: not (args.username or args.password)
NeedsBanner_Or(username, password) == ~(Truthy(username) \/ Truthy(password))

\* not (args.username and args.password)
NeedsBanner(username, password) == ~(Truthy(username) /\ Truthy(password))

\* not all([args.username, args.password])
NeedsBlankLine(username, password) == ~(\A v \in {username, password} : Truthy(v))

\* lines 138-140: the banner of the interactive path
Interactive ==
    /\ pc = "start"
    /\ Selected(args) = "configure"
    /\ ~args.netrc
    /\ out' = IF NeedsBanner(args.username, args.password)
                THEN PyPrint(out, "stdout", MsgBanner)
                ELSE out
    /\ cred' = <<args.username, args.password>>
    /\ pc' = "configure"
    /\ UNCHANGED <<args, heap, calls, status, exitCode, raised, whoami_info, netrc_exc,
                   n, conf, config_file>>

\* what configure() can do: write the config file and return its path, or
\* raise AuthenticationError with a message
ConfigureOutcomes ==
    [ok : {TRUE}, path : {SessionConfigFile, "/home/user/.ia"}, msg : {""}]
        \cup [ok : {FALSE}, path : {""}, msg : {"wrong password"}]

\* the arguments of the call at lines 132-135 and 141-144
ConfigureArgs(username, password) ==
    <<username, password, PyStr(SessionConfigFile), PyStr(SessionHost)>>

\* variant that calls configure() again after an AuthenticationError
OnAuthenticationError_Retry == "configure"

\* where control goes when configure() raises AuthenticationError
OnAuthenticationError == "auth_error"

Configure ==
    /\ pc = "configure"
    /\ calls' = Append(calls, [fn |-> "configure", args |-> ConfigureArgs(cred[1], cred[2]),
                               at |-> Len(out)])
    /\ \E o \in ConfigureOutcomes :
          /\ conf' = o
          /\ IF o.ok
               THEN /\ config_file' = "written"
                    /\ pc' = "saved"
               ELSE /\ pc' = OnAuthenticationError
                    /\ UNCHANGED config_file
    /\ UNCHANGED <<args, heap, out, status, exitCode, raised, whoami_info, netrc_exc, n,
                   cred>>

\* lines 136 and 145-148: the saved-path message, then main returns
Saved ==
    /\ pc = "saved"
    /\ out' = IF args.netrc
                THEN PyPrint(out, "stderr", MsgSaved(conf.path))
                ELSE LET saved_msg == MsgSaved(conf.path)
                     IN  PyPrint(out, "stdout",
                                 IF NeedsBlankLine(args.username, args.password)
                                   THEN "\n" \o saved_msg
                                   ELSE saved_msg)
    /\ status' = "returned"
    /\ pc' = "done"
    /\ UNCHANGED <<args, heap, calls, exitCode, raised, whoami_info, netrc_exc, n, cred,
                   conf, config_file>>

\* lines 150-152: except AuthenticationError as exc
AuthError ==
    /\ pc = "auth_error"
    /\ out' = PyPrint(out, "stderr", "\nerror: " \o conf.msg)
    /\ SysExit(1)
    /\ UNCHANGED <<args, heap, calls, raised, whoami_info, netrc_exc, n, cred, conf, config_file>>

----------------------------------------------------------------------------
Next ==
    \/ PrintCookies
    \/ Show
    \/ Check
    \/ NetrcLoad
    \/ NetrcLookup
    \/ Interactive
    \/ Configure
    \/ Saved
    \/ AuthError

Spec == Init /\ [][Next]_vars

----------------------------------------------------------------------------
(* Properties *)

Line(t) == t \o "\n"
CallsOf(f) == SelectSeq(calls, LAMBDA c : c.fn = f)
Printed(stream, t) ==
    \E i \in DOMAIN out : out[i].kind = "text" /\ out[i].stream = stream /\ out[i].text = Line(t)
PrintedAnywhere(t) == Printed("stdout", t) \/ Printed("stderr", t)
Done == pc = "done"
Exited(code) == Done /\ status = "exited" /\ exitCode = code

MissingCookieMsgs == {MsgBothCookies, MsgUserCookie, MsgSigCookie}
CookieLines ==
    {CookieLine(u, g) : u \in CookieValues("logged-in-user"), g \in CookieValues("logged-in-sig")}

\* observable traces of each of the four actions
DidCookies == \E t \in MissingCookieMsgs \cup CookieLines : PrintedAnywhere(t)
DidShow == \E i \in DOMAIN out : out[i].kind = "json"
DidCheck == Len(CallsOf("whoami")) > 0
DidConfigure ==
    \/ Len(CallsOf("configure")) > 0
    \/ Len(CallsOf("netrc")) > 0
    \/ PrintedAnywhere(MsgBanner)
    \/ PrintedAnywhere(MsgNetrcBanner)

\* C1: for every combination of print_cookies, show, check and netrc, main
\* performs exactly one action, chosen by the priority print_cookies > show >
\* check > default configure; the actions of lower priority leave no trace
\* (no JSON output, no whoami() call, no configure() call), and netrc selects
\* nothing by itself: the netrc file is read only within the default action.
C1_OneActionByPriority ==
    LET none == ~args.print_cookies /\ ~args.show /\ ~args.check
        did == {a \in {"print_cookies", "show", "check", "configure"} :
                   CASE a = "print_cookies" -> DidCookies
                     [] a = "show" -> DidShow
                     [] a = "check" -> DidCheck
                     [] OTHER -> DidConfigure}
    IN  /\ args.print_cookies => did \subseteq {"print_cookies"}
        /\ (~args.print_cookies /\ args.show) => did \subseteq {"show"}
        /\ (~args.print_cookies /\ ~args.show /\ args.check) => did \subseteq {"check"}
        /\ none => did \subseteq {"configure"}
        /\ Done => Cardinality(did) = 1
        /\ Len(CallsOf("netrc")) > 0 => (args.netrc /\ none)
        /\ (Done /\ none) => (Len(CallsOf("netrc")) = 1 <=> args.netrc)

C1_Witness ==
    /\ Done
    /\ args.print_cookies /\ args.show /\ args.check /\ args.netrc
    /\ DidCookies
    /\ calls = <<>>

\* C2: every error of an invocation ends in a printed message and exit code
\* 1 and no exception escapes main; in particular a netrc file that loads but
\* has no archive.org entry gives an error message, exit code 1 and no
\* configure() call.
C2_ErrorsHandled ==
    /\ raised = ""
    /\ status # "raised"
    /\ (Done /\ netrc_exc = "" /\ "archive.org" \notin DOMAIN n)
          => /\ Exited(1)
             /\ \E i \in DOMAIN out : out[i].stream = "stderr" /\ out[i].text # Line(MsgNetrcBanner)
             /\ CallsOf("configure") = <<>>

\* the document with the two secrets replaced
Redacted(doc) ==
    {IF e.t = "str" /\ e.path \in {<<"s3", "secret">>, <<"cookies", "logged-in-sig">>}
       THEN [e EXCEPT !.s = "REDACTED"]
       ELSE e
     : e \in doc}

\* C3: with show selected, the only output is the session config as JSON on
\* stdout with s3.secret and cookies.logged-in-sig, where present, replaced
\* by REDACTED and everything else as it was (no member added or dropped),
\* the exit code is 0, and every dict of the session config is after the step
\* what it was before it.
C3_ShowRedactsCopy ==
    [][(pc = "start" /\ ~args.print_cookies /\ args.show) =>
          /\ out' = <<[stream |-> "stdout", kind |-> "json", text |-> "",
                       doc |-> Redacted(JsonDoc(heap, SessionConfig, <<>>))]>>
          /\ status' = "exited"
          /\ exitCode' = 0
          /\ \A id \in 1..Len(heap) : heap'[id] = heap[id]
          /\ JsonDoc(heap', SessionConfig, <<>>) = JsonDoc(heap, SessionConfig, <<>>)]_vars

C3_Witness ==
    /\ Done
    /\ ~args.print_cookies /\ args.show
    /\ Len(out) = 1
    /\ [path |-> <<"s3", "secret">>, t |-> "str", s |-> "REDACTED"] \in out[1].doc
    /\ [path |-> <<"cookies", "logged-in-sig">>, t |-> "str", s |-> "REDACTED"] \in out[1].doc
    /\ [path |-> <<"cookies", "logged-in-user">>, t |-> "str", s |-> "alice"] \in out[1].doc
    /\ [path |-> <<"s3", "secret">>, t |-> "str", s |-> "s3cr3t"]
           \in JsonDoc(heap, SessionConfig, <<>>)
    /\ [path |-> <<"cookies", "logged-in-sig">>, t |-> "str", s |-> "xyz"]
           \in JsonDoc(heap, SessionConfig, <<>>)

----------------------------------------------------------------------------
CookiePresent(key) ==
    /\ "cookies" \in DOMAIN heap[SessionConfig]
    /\ key \in DOMAIN heap[heap[SessionConfig]["cookies"].o]
CookieValue(key) == heap[heap[SessionConfig]["cookies"].o][key].s
CookieNonEmpty(key) == CookiePresent(key) /\ CookieValue(key) # ""

\* the outcome of print_cookies when hasUser and hasSig say which cookies count
\* as being there
CookieOutcome(hasUser, hasSig) ==
    (args.print_cookies /\ Done) =>
        IF hasUser /\ hasSig
          THEN /\ out = <<[stream |-> "stdout", kind |-> "text", doc |-> {},
                           text |-> Line("logged-in-user=" \o CookieValue("logged-in-user")
                                           \o "; logged-in-sig=" \o CookieValue("logged-in-sig"))]>>
               /\ Exited(0)
          ELSE /\ Stdout = <<>>
               /\ Len(Stderr) = 1
               /\ Stderr[1].text =
                     Line(IF ~hasUser /\ ~hasSig
                            THEN "error: 'logged-in-user' and 'logged-in-sig' cookies not found in config file, try reconfiguring."
                            ELSE IF ~hasUser
                                   THEN "error: 'logged-in-user' cookie not found in config file, try reconfiguring."
                                   ELSE "error: 'logged-in-sig' cookie not found in config file, try reconfiguring.")
               /\ Exited(1)

\* C4 as stated: with print_cookies set, the cookie line is printed to stdout
\* with exit code 0 when both cookies are present in the config, and otherwise
\* nothing goes to stdout, stderr gets the one message naming exactly the
\* absent cookies and the exit code is 1; presence alone decides.
C4_PresenceDecides ==
    CookieOutcome(CookiePresent("logged-in-user"), CookiePresent("logged-in-sig"))

\* C4 amended: the same outcome, decided by each cookie being present with a
\* non-empty value; a cookie whose value is the empty string counts as absent.
C4_NonEmptyDecides ==
    CookieOutcome(CookieNonEmpty("logged-in-user"), CookieNonEmpty("logged-in-sig"))

C4_Witness ==
    /\ Exited(1)
    /\ args.print_cookies
    /\ CookiePresent("logged-in-user") /\ CookieValue("logged-in-user") = ""
    /\ CookieNonEmpty("logged-in-sig")
    /\ Printed("stderr", MsgUserCookie)

\* C5: with check selected, whoami() is the only collaborator call and is made
\* once; the command prints the validity message with the result's username
\* and exits 0 exactly when the result's success is the boolean True, and
\* otherwise prints only the generic invalid-credentials message and exits 1,
\* whatever else the result holds.
C5_CheckFollowsWhoami ==
    (~args.print_cookies /\ ~args.show /\ args.check /\ Done) =>
        /\ Len(calls) = 1
        /\ calls[1].fn = "whoami"
        /\ IF whoami_info.success = PyBool(TRUE)
             THEN /\ out = <<[stream |-> "stdout", kind |-> "text", doc |-> {},
                              text |-> Line("The credentials for \"" \o whoami_info.username
                                              \o "\" are valid")]>>
                  /\ Exited(0)
             ELSE /\ Len(out) = 1
                  /\ out[1].kind = "text"
                  /\ out[1].text =
                        Line("Your credentials are invalid, check your configuration and try again")
                  /\ Exited(1)

C5_Witness ==
    /\ Exited(1)
    /\ ~args.print_cookies /\ ~args.show /\ args.check
    /\ whoami_info.success = PyInt(1)
    /\ whoami_info.error = "invalid key"
    /\ Len(CallsOf("whoami")) = 1

\* the interactive path when both says that both credentials count as supplied
InteractiveOutcome(both) ==
    (~args.print_cookies /\ ~args.show /\ ~args.check /\ ~args.netrc /\ pc # "start") =>
        LET cc == CallsOf("configure")
            banner == Printed("stdout", MsgBanner)
            savedPlain == Printed("stdout", "Config saved to: " \o conf.path)
            savedBlank == Printed("stdout", "\nConfig saved to: " \o conf.path)
        IN  /\ Len(cc) <= 1
            /\ pc \in {"saved", "auth_error", "done"} => Len(cc) = 1
            /\ \A i \in DOMAIN cc :
                  cc[i].args = <<args.username, args.password,
                                 PyStr(SessionConfigFile), PyStr(SessionHost)>>
            /\ both => /\ ~banner
                       /\ ~savedBlank
                       /\ (Done /\ status = "returned") => savedPlain
            /\ ~both => /\ out # <<>>
                        /\ out[1].stream = "stdout"
                        /\ out[1].text = Line(MsgBanner)
                        /\ \A i \in DOMAIN cc : cc[i].at >= 1
                        /\ ~savedPlain
                        /\ (Done /\ status = "returned") =>
                               /\ savedBlank
                               /\ out[Len(out)].text = Line("\nConfig saved to: " \o conf.path)
                               /\ cc[1].at < Len(out)
            /\ (savedPlain \/ savedBlank) => (banner <=> savedBlank)

\* C6 as stated: on the interactive path configure() is called once with
\* exactly (username, password, config_file, host); when both credentials
\* were supplied as flags there is no banner and the saved-path message has no
\* leading blank line; when one was not supplied the banner is printed before
\* the call and the saved-path message, printed after it, starts with a blank
\* line; the banner is there iff the blank line is.
C6_SuppliedDecides ==
    InteractiveOutcome(args.username.t # "none" /\ args.password.t # "none")

\* C6 amended: the same, with "supplied" read as "supplied with a non-empty
\* value": an empty username or password counts as not supplied.
C6_NonEmptyDecides ==
    InteractiveOutcome(/\ args.username.t = "str" /\ args.username.s # ""
                       /\ args.password.t = "str" /\ args.password.s # "")

C6_Witness ==
    /\ Done
    /\ status = "returned"
    /\ ~args.print_cookies /\ ~args.show /\ ~args.check /\ ~args.netrc
    /\ args.username = PyStr("") /\ args.password = PyStr("secret")
    /\ Len(out) = 2
    /\ out[1].text = Line(MsgBanner)
    /\ out[2].text = Line("\nConfig saved to: " \o conf.path)
    /\ Len(CallsOf("configure")) = 1

\* C7: on the netrc path, a missing file gives exactly the not-found message
\* on stderr and exit code 1, a malformed file the parse-error message and
\* exit code 1, both without a configure() call or a saved-path message; a
\* file that loads gives one configure() call with the archive.org entry's
\* username and password (the empty string for no password), config_file and
\* host, not the flag values, and the saved-path message of a call that
\* returns goes to stderr; nothing is written to stdout.
C7_NetrcPath ==
    (~args.print_cookies /\ ~args.show /\ ~args.check /\ args.netrc /\ Done) =>
        LET cc == CallsOf("configure")
            failed(msg) ==
                /\ Exited(1)
                /\ Stderr = <<[stream |-> "stderr", kind |-> "text", doc |-> {},
                               text |-> Line(MsgNetrcBanner)],
                              [stream |-> "stderr", kind |-> "text", doc |-> {},
                               text |-> Line(msg)]>>
                /\ cc = <<>>
                /\ config_file = "untouched"
        IN  /\ Stdout = <<>>
            /\ netrc_exc = "FileNotFoundError" => failed("error: .netrc file not found.")
            /\ netrc_exc = "NetrcParseError"
                  => failed("error: netrc.netrc() cannot parse your .netrc file.")
            /\ netrc_exc = "" =>
                  /\ Len(cc) = 1
                  /\ cc[1].args =
                        <<n["archive.org"][1],
                          IF n["archive.org"][3].t = "none" THEN PyStr("") ELSE n["archive.org"][3],
                          PyStr(SessionConfigFile), PyStr(SessionHost)>>
                  /\ conf.ok => Printed("stderr", "Config saved to: " \o conf.path)

AuthMsgs == {"\nerror: " \o o.msg : o \in {x \in ConfigureOutcomes : ~x.ok}}
ErrorMsgs ==
    MissingCookieMsgs \cup {MsgInvalid, MsgNetrcParse, MsgNetrcNotFound} \cup AuthMsgs
ValidMsgs == {MsgValid(r.username) : r \in WhoamiResults}
SavedMsgs ==
    UNION {{MsgSaved(o.path), "\n" \o MsgSaved(o.path)} : o \in {x \in ConfigureOutcomes : x.ok}}
IsError(e) == e.kind = "text" /\ \E m \in ErrorMsgs : e.text = Line(m)
IsSuccess(e) ==
    \/ e.kind = "json"
    \/ e.kind = "text" /\ \E m \in CookieLines \cup ValidMsgs \cup SavedMsgs : e.text = Line(m)

\* C8: every error message is written to stderr, every exit with code 1
\* comes with an error message on stderr, and exit code 0 comes only from a
\* branch that succeeded.
C8_ErrorsOnStderr ==
    /\ \A i \in DOMAIN out : IsError(out[i]) => out[i].stream = "stderr"
    /\ Exited(1) => \E i \in DOMAIN out : IsError(out[i]) /\ out[i].stream = "stderr"
    /\ Exited(0) => /\ \E i \in DOMAIN out : IsSuccess(out[i])
                    /\ \A i \in DOMAIN out : ~IsError(out[i])

\* C9: every invocation writes exactly one message that is a success or an
\* error message; when configure() raises AuthenticationError the message is
\* "\nerror: <message>" on stderr, the exit code is 1 and no saved-path
\* message is printed; when configure() returns the saved-path message is
\* printed once and no error message is.
C9_ExactlyOneMessage ==
    Done =>
        LET results == {i \in DOMAIN out : IsSuccess(out[i]) \/ IsError(out[i])}
            saved == {i \in DOMAIN out :
                        out[i].kind = "text" /\ \E m \in SavedMsgs : out[i].text = Line(m)}
        IN  /\ Cardinality(results) = 1
            /\ (Len(CallsOf("configure")) = 1 /\ ~conf.ok) =>
                  /\ Printed("stderr", "\nerror: " \o conf.msg)
                  /\ Exited(1)
                  /\ saved = {}
            /\ (Len(CallsOf("configure")) = 1 /\ conf.ok) =>
                  /\ Cardinality(saved) = 1
                  /\ \A i \in DOMAIN out : ~IsError(out[i])

\* a collaborator has failed: netrc.netrc() raised, the hosts lookup raised,
\* whoami() did not report success, or configure() raised
Failed ==
    \/ netrc_exc \in {"NetrcParseError", "FileNotFoundError"}
    \/ raised # ""
    \/ Len(CallsOf("whoami")) > 0 /\ whoami_info.success # PyBool(TRUE)
    \/ Len(CallsOf("configure")) > 0 /\ ~conf.ok

\* C10: configure() and whoami() are each called at most once; no step
\* changes a dict of the session config; with print_cookies, show or check
\* set configure() is not called and the config file stays untouched; and
\* once a collaborator has failed no further collaborator call is made.
C10_ReadOnlyNoRetry ==
    [][/\ Len(SelectSeq(calls', LAMBDA c : c.fn = "configure")) <= 1
       /\ Len(SelectSeq(calls', LAMBDA c : c.fn = "whoami")) <= 1
       /\ \A id \in 1..Len(heap) : heap'[id] = heap[id]
       /\ (args.print_cookies \/ args.show \/ args.check) =>
             /\ SelectSeq(calls', LAMBDA c : c.fn = "configure") = <<>>
             /\ config_file' = "untouched"
       /\ Failed => calls' = calls]_vars

C10_Witness ==
    /\ Exited(1)
    /\ Len(CallsOf("configure")) = 1
    /\ ~conf.ok
    /\ Printed("stderr", "\nerror: " \o conf.msg)
    /\ config_file = "untouched"

====
